---------------------------- MODULE Spec2Model ----------------------------
(***************************************************************************)
(* A model of app.py, the VCT match prediction application: the prediction *)
(* function predict_match with its double-precision arithmetic, the cached *)
(* loaders, and the two-page Streamlit flow driven by script re-runs.      *)
(***************************************************************************)
EXTENDS Integers, Sequences, FiniteSets, TLC

(***************************************************************************)
(* IEEE-754 binary64 arithmetic.  Python floats and numpy float64 are      *)
(* doubles; a double is kept here as a sign and a magnitude, the magnitude *)
(* an integer number of units of 2^-FracBits written in 16-bit limbs,      *)
(* least significant first, without leading zero limbs (TLC's integers are *)
(* too narrow to hold a 53-bit significand).  Every double of magnitude at *)
(* least 2^(52-FracBits) lies on this grid; an operation computes the      *)
(* exact result and rounds it to 53 significant bits, ties to even.        *)
(***************************************************************************)

\* The grid of representable magnitudes: units of 2^-FracBits.
FracBits == 64

\* The({e : x \in {v}}) is e where x is the value of v, which is computed
\* once however often e uses it.
The(S) == CHOOSE r \in S : TRUE

Limb(a, i) == IF 1 <= i /\ i <= Len(a) THEN a[i] ELSE 0

Max(m, n) == IF m > n THEN m ELSE n

Min(m, n) == IF m < n THEN m ELSE n

\* d without its leading zero limbs
Norm(d0) ==
    The({SubSeq(d, 1, CHOOSE n \in 0..Len(d) :
                         /\ n = 0 \/ d[n] # 0
                         /\ \A j \in (n + 1)..Len(d) : d[j] = 0)
         : d \in {d0}})

\* The carry into limb i of a + b: some limb below generates one and the
\* limbs between pass it on.
AddCarry(a, b, i) ==
    IF \E j \in 1..(i - 1) :
          /\ Limb(a, j) + Limb(b, j) > 65535
          /\ \A k \in (j + 1)..(i - 1) : Limb(a, k) + Limb(b, k) = 65535
    THEN 1 ELSE 0

BAdd(a0, b0) ==
    The({Norm([i \in 1..(Max(Len(a), Len(b)) + 1) |->
                 (Limb(a, i) + Limb(b, i) + AddCarry(a, b, i)) % 65536])
         : a \in {a0}, b \in {b0}})

\* The borrow from limb i of a - b.
SubBorrow(a, b, i) ==
    IF \E j \in 1..(i - 1) :
          /\ Limb(a, j) < Limb(b, j)
          /\ \A k \in (j + 1)..(i - 1) : Limb(a, k) = Limb(b, k)
    THEN 1 ELSE 0

\* a - b for a >= b
BSub(a0, b0) ==
    The({Norm([i \in 1..Len(a) |->
                 (Limb(a, i) - Limb(b, i) - SubBorrow(a, b, i) + 65536) % 65536])
         : a \in {a0}, b \in {b0}})

\* a < b, for a and b at hand
BLessV(a, b) ==
    IF Len(a) # Len(b) THEN Len(a) < Len(b)
    ELSE \E i \in 1..Len(a) :
            /\ a[i] < b[i]
            /\ \A j \in (i + 1)..Len(a) : a[j] = b[j]

\* The carry into limb i of a * m, for 0 <= m <= 32768.
RECURSIVE MulCarry(_, _, _)
MulCarry(a, m, i) ==
    IF i = 1 THEN 0 ELSE (Limb(a, i - 1) * m + MulCarry(a, m, i - 1)) \div 65536

BMulSmall(a0, m) ==
    The({Norm([i \in 1..(Len(a) + 1) |->
                 (Limb(a, i) * m + MulCarry(a, m, i)) % 65536])
         : a \in {a0}})

\* Division of a by n, 0 < n <= 32768, from the top limb down: the
\* remainder left after the limbs i and above.
RECURSIVE DivRem(_, _, _)
DivRem(a, n, i) ==
    IF i > Len(a) THEN 0 ELSE (DivRem(a, n, i + 1) * 65536 + a[i]) % n

BDivSmall(a0, n) ==
    The({[q |-> Norm([i \in 1..Len(a) |->
                        (DivRem(a, n, i + 1) * 65536 + a[i]) \div n]),
          r |-> DivRem(a, n, 1)]
         : a \in {a0}})

\* The number of bits of a, for a at hand
BitLenV(a) ==
    IF a = <<>> THEN 0
    ELSE 16 * (Len(a) - 1)
         + CHOOSE k \in 1..16 : 2^(k - 1) <= a[Len(a)] /\ a[Len(a)] < 2^k

\* floor(a * 2^s), for s of either sign
Shift(a0, s) ==
    The({Norm([i \in 1..Max(Len(a) + q + 1, 0) |->
                 ((Limb(a, i - q) * 2^r) % 65536)
                 + (Limb(a, i - q - 1) \div 2^(16 - r))])
         : a \in {a0}, q \in {s \div 16}, r \in {s % 16}})

\* a % 2^s, for s >= 0
LowBits(a0, s) ==
    The({Norm([i \in 1..Min(Len(a), q + 1) |->
                 IF i <= q THEN a[i] ELSE a[i] % 2^r])
         : a \in {a0}, q \in {s \div 16}, r \in {s % 16}})

\* a \div 2^s rounded to an integer, ties to even; sticky says that the
\* exact value lies strictly above a.
RoundShift(a, s, sticky) ==
    The({IF BLessV(half, rest)
            \/ (rest = half /\ (sticky \/ Limb(q, 1) % 2 = 1))
         THEN BAdd(q, <<1>>) ELSE q
         : q \in {Shift(a, 0 - s)},
           rest \in {LowBits(a, s)},
           half \in {Shift(<<1>>, s - 1)}})

\* The double of sign neg next to the exact magnitude: 53 significant bits,
\* ties to even.  The exact magnitude is given in units of 2^-(FracBits +
\* guard), the double's in units of 2^-FracBits.
Round(neg, exact, sticky, guard) ==
    The({[neg |-> neg /\ a # <<>>,
          mag |-> IF BitLenV(a) <= 53 THEN Shift(a, 0 - guard)
                  ELSE Shift(RoundShift(a, BitLenV(a) - 53, sticky),
                             BitLenV(a) - 53 - guard)]
         : a \in {exact}})

Reverse(s) == [i \in 1..Len(s) |-> s[Len(s) + 1 - i]]

\* The double M * 2^-e, M > 0 given by its 16-bit limbs, most significant
\* first.
Dbl(limbs, e) == [neg |-> FALSE, mag |-> Shift(Reverse(limbs), FracBits - e)]

Zero == [neg |-> FALSE, mag |-> <<>>]

\* The double of the integer 0 <= k < 2^31
FromNat(k0) ==
    The({[neg |-> FALSE, mag |-> Shift(<<k % 65536, k \div 65536>>, FracBits)]
         : k \in {k0}})

One == FromNat(1)

FNeg(x0) == The({[neg |-> ~x.neg /\ x.mag # <<>>, mag |-> x.mag] : x \in {x0}})

FAbs(x0) == The({[neg |-> FALSE, mag |-> x.mag] : x \in {x0}})

\* x + y, for x and y at hand
FAddV(x, y) ==
    IF x.neg = y.neg THEN Round(x.neg, BAdd(x.mag, y.mag), FALSE, 0)
    ELSE IF BLessV(x.mag, y.mag)
         THEN Round(y.neg, BSub(y.mag, x.mag), FALSE, 0)
         ELSE Round(x.neg, BSub(x.mag, y.mag), FALSE, 0)

FAdd(x0, y0) == The({FAddV(x, y) : x \in {x0}, y \in {y0}})

FSub(x0, y0) == The({FAddV(x, y) : x \in {x0}, y \in {FNeg(y0)}})

\* x < y, for x and y at hand
FLessV(x, y) ==
    IF x.neg # y.neg THEN x.neg
    ELSE IF x.neg THEN BLessV(y.mag, x.mag) ELSE BLessV(x.mag, y.mag)

FLess(x0, y0) == The({FLessV(x, y) : x \in {x0}, y \in {y0}})

FLeq(x0, y0) == The({x = y \/ FLessV(x, y) : x \in {x0}, y \in {y0}})

\* x * m for an integer 0 <= m <= 32768
FMulInt(x0, m) ==
    The({Round(x.neg, BMulSmall(x.mag, m), FALSE, 0) : x \in {x0}})

\* x / n for an integer 0 < n <= 32768: the quotient is taken with FracBits
\* more bits, and what the division leaves makes it sticky.
FDivInt(x0, n) ==
    The({Round(d.neg, d.q, d.r # 0, FracBits)
         : d \in {The({BDivSmall(Shift(x.mag, FracBits), n) @@ [neg |-> x.neg]
                       : x \in {x0}})}})

\* numpy's rint of a double 0 <= x < 2^31: the nearest integer, ties to even.
Rint(x0) ==
    The({The({IF BLessV(half, rest) \/ (rest = half /\ k % 2 = 1)
              THEN k + 1 ELSE k
              : k \in {Limb(Shift(x.mag, 0 - FracBits), 1)
                       + 65536 * Limb(Shift(x.mag, 0 - FracBits), 2)},
                rest \in {LowBits(x.mag, FracBits)},
                half \in {Shift(<<1>>, FracBits - 1)}})
         : x \in {x0}})

(***************************************************************************)
(* Doubles that occur in the program, and those used as data.              *)
(***************************************************************************)
\* DEFAULT_WIN_RATE = 0.5, and the 0.5 of abs(prob - 0.5)
DEFAULT_WIN_RATE == Dbl(<<1>>, 1)

\* The literal 0.3 of abs(prob - 0.5) > 0.3: 0x1.3333333333333p-2
CONFIDENCE_MARGIN == Dbl(<<19, 13107, 13107, 13107>>, 54)

D0_2 == Dbl(<<12, 52428, 52428, 52429>>, 54)     \* 0.2 = 0x1.999999999999ap-3

D0_8 == Dbl(<<12, 52428, 52428, 52429>>, 52)     \* 0.8 = 0x1.999999999999ap-1

D0_2_pred == Dbl(<<25, 39321, 39321, 39321>>, 55)    \* the double below 0.2

D0_8_pred == Dbl(<<25, 39321, 39321, 39321>>, 53)    \* the double below 0.8

D0_1996 == Dbl(<<3, 12687, 50436, 33135>>, 52)   \* 0.1996

D0_2004 == Dbl(<<25, 42677, 2831, 10171>>, 55)   \* 0.2004

D0_7996 == Dbl(<<25, 38482, 48444, 13841>>, 53)  \* 0.7996

D0_8004 == Dbl(<<12, 52848, 15099, 32401>>, 52)  \* 0.8004

D0_4 == Dbl(<<12, 52428, 52428, 52429>>, 53)     \* 0.4

D0_6 == Dbl(<<19, 13107, 13107, 13107>>, 53)     \* 0.6

D1_2 == Dbl(<<19, 13107, 13107, 13107>>, 52)     \* 1.2

(***************************************************************************)
(* Python values.  A dict is a sequence of <<key, value>> pairs in         *)
(* insertion order with distinct keys; None is the string "None".          *)
(***************************************************************************)
None == "None"

EmptyDict == <<>>

Keys(d) == {d[i][1] : i \in DOMAIN d}

Get(d, k) == d[CHOOSE i \in DOMAIN d : d[i][1] = k][2]

Values(d) == [i \in DOMAIN d |-> d[i][2]]

\* d[k] = v
DictSet(d0, k, v) ==
    The({(IF k \in Keys(d)
          THEN [i \in DOMAIN d |-> IF d[i][1] = k THEN <<k, v>> ELSE d[i]]
          ELSE Append(d, <<k, v>>))
         : d \in {d0}})

\* d.get(k, default)
GetOr(d0, k, default) ==
    The({(IF k \in Keys(d) THEN Get(d, k) ELSE default) : d \in {d0}})

(***************************************************************************)
(* numpy: np.mean sums the (fewer than eight) elements left to right and   *)
(* divides by their number; np.std of a single element is 0.0; round(x, 3) *)
(* of a float64 is rint(x * 1000) / 1000.                                  *)
(***************************************************************************)
RECURSIVE np_sum(_, _)
np_sum(xs, n) == IF n = 0 THEN Zero ELSE FAdd(np_sum(xs, n - 1), xs[n])

np_mean(xs0) == The({FDivInt(np_sum(xs, Len(xs)), Len(xs)) : xs \in {xs0}})

\* sqrt(mean(abs(x - mean)^2)) of a one-element list, which is abs(x - x):
\* the tables of this model hold at most one map per team.
np_std(xs0) == The({FAbs(FSub(xs[1], mean)) : xs \in {xs0}, mean \in {np_mean(xs0)}})

round3(x) == The({FDivInt(FromNat(Rint(y)), 1000) : y \in {FMulInt(x, 1000)}})

(***************************************************************************)
(* The loaded artifacts.  The classifier and the scaler are opaque pickled *)
(* objects: the classifier is kept as the class-1 probability it answers   *)
(* with, the scaler as the number of features it was fitted on (transform  *)
(* raises ValueError for a vector of another length).                      *)
(***************************************************************************)
scaler_transform(scaler, features) ==
    IF scaler.n_features_in = Len(features)
    THEN [raised |-> FALSE, value |-> features]
    ELSE [raised |-> TRUE, exc |-> "ValueError"]

model_predict_proba(model, features_scaled) == model.proba

HIGH_CONFIDENCE == "high confidence"

USE_WITH_CAUTION == "use with caution"

\* The error result built on top of a default result (win_prob kept).
ErrorResult_KeepsWinProb(e) ==
    [error |-> <<"predict failed: ", e>>, win_prob |-> DEFAULT_WIN_RATE]

\* {"error": f"... {str(e)}"}: the message is a fixed prefix and str(e).
ErrorResult(e) == [error |-> <<"predict failed: ", e>>]

\* abs(prob - 0.5) >= 0.3
IsHighConfidence_AtLeast(prob) ==
    FLeq(CONFIDENCE_MARGIN, FAbs(FSub(prob, DEFAULT_WIN_RATE)))

\* abs(prob - 0.5) > 0.3
IsHighConfidence(prob) ==
    FLess(CONFIDENCE_MARGIN, FAbs(FSub(prob, DEFAULT_WIN_RATE)))

\* team["map_win_rate"].get(map_name, 0)
WinRate_DefaultZero(team, map_name) == GetOr(team.map_win_rate, map_name, Zero)

\* team["map_win_rate"].get(map_name, DEFAULT_WIN_RATE)
WinRate(team, map_name) == GetOr(team.map_win_rate, map_name, DEFAULT_WIN_RATE)

\* global_avg_rating - rating: the operands swapped.
RatingLevel_Flipped(rating, global_avg_rating) == FSub(global_avg_rating, rating)

\* rating - global_avg_rating
RatingLevel(rating, global_avg_rating) == FSub(rating, global_avg_rating)

\* teams_data after team.setdefault("avg_rating", global_avg_rating) on both
\* teams instead of team.get("avg_rating", global_avg_rating).
AfterReads_SetDefault(teams_data, team1_abbr, team2_abbr, global_avg_rating) ==
    The({DictSet(d1, team2_abbr,
                 Get(d1, team2_abbr) @@ [avg_rating |-> global_avg_rating])
         : d1 \in {DictSet(teams_data, team1_abbr,
           Get(teams_data, team1_abbr)
           @@ [avg_rating |-> global_avg_rating])}})

\* teams_data as the lookups of a call (d[k], d.get(k, default), d.values())
\* leave it: none of them inserts or rebinds a key.
AfterReads(teams_data, team1_abbr, team2_abbr, global_avg_rating) == teams_data

\* [t.get("avg_rating", 0) for t in teams_data.values()]
AllRatings(teams_data) ==
    [i \in DOMAIN teams_data |->
        IF "avg_rating" \in DOMAIN teams_data[i][2]
        THEN teams_data[i][2].avg_rating ELSE Zero]

\* team.get("avg_rating", global_avg_rating)
TeamRating(team, global_avg_rating) ==
    IF "avg_rating" \in DOMAIN team THEN team.avg_rating ELSE global_avg_rating

\* list(team["map_win_rate"].values()) or [DEFAULT_WIN_RATE]
RatesOrDefault(team) ==
    IF Values(team.map_win_rate) # <<>> THEN Values(team.map_win_rate)
    ELSE <<DEFAULT_WIN_RATE>>

\* The feature engineering of predict_match, from the two team entries and
\* the mean rating: the locals it computes, features last.
Features(team1, team2, map_name, global_avg_rating) ==
    LET t1_rating == TeamRating(team1, global_avg_rating)
        t2_rating == TeamRating(team2, global_avg_rating)
        map_diff == FSub(WinRate(team1, map_name), WinRate(team2, map_name))
        rating_diff == FSub(t1_rating, t2_rating)
        t1_rating_level == RatingLevel(t1_rating, global_avg_rating)
        t2_rating_level == RatingLevel(t2_rating, global_avg_rating)
        rating_level_diff == FSub(t1_rating_level, t2_rating_level)
        map_stability_diff ==
            FSub(np_std(RatesOrDefault(team1)), np_std(RatesOrDefault(team2)))
    IN  [global_avg_rating |-> global_avg_rating,
         t1_rating |-> t1_rating, t2_rating |-> t2_rating,
         features |-> <<rating_diff, map_diff, rating_level_diff,
                        map_stability_diff>>]

\* Scaling, inference and the packaging of the result.
Score(team1_abbr, team2_abbr, map_name, model, scaler, locals) ==
    LET features_scaled == scaler_transform(scaler, locals.features)
        prob == model_predict_proba(model, features_scaled.value)
    IN  IF features_scaled.raised
        THEN [ret |-> ErrorResult(features_scaled.exc), locals |-> locals]
        ELSE [ret |-> [team1 |-> team1_abbr,
                       team2 |-> team2_abbr,
                       map |-> map_name,
                       win_prob |-> round3(prob),
                       confidence |->
                           IF IsHighConfidence(prob) THEN HIGH_CONFIDENCE
                           ELSE USE_WITH_CAUTION],
              locals |-> locals @@ [prob |-> prob]]

\* The frame of one call of predict_match: its return value (every
\* exception becomes an error result), the locals it computed on the way,
\* and teams_data as the call leaves it.
predict_match_frame(team1_abbr, team2_abbr, map_name, model, scaler, teams_data) ==
    IF team1_abbr \notin Keys(teams_data)
    THEN [ret |-> ErrorResult(team1_abbr), teams_data |-> teams_data]
    ELSE IF team2_abbr \notin Keys(teams_data)
    THEN [ret |-> ErrorResult(team2_abbr), teams_data |-> teams_data]
    ELSE
    The({IF "map_win_rate" \notin DOMAIN team1 \/ "map_win_rate" \notin DOMAIN team2
         THEN [ret |-> ErrorResult("map_win_rate"), teams_data |-> teams_data]
         ELSE The({Score(team1_abbr, team2_abbr, map_name, model, scaler, locals)
                   @@ [teams_data |->
                          AfterReads(teams_data, team1_abbr, team2_abbr,
                                     global_avg_rating)]
                   : locals \in {Features(team1, team2, map_name, global_avg_rating)}})
         : team1 \in {Get(teams_data, team1_abbr)},
           team2 \in {Get(teams_data, team2_abbr)},
           global_avg_rating \in {IF AllRatings(teams_data) # <<>>
                                  THEN np_mean(AllRatings(teams_data)) ELSE Zero}})

predict_match(team1_abbr, team2_abbr, map_name, model, scaler, teams_data) ==
    predict_match_frame(team1_abbr, team2_abbr, map_name,
                        model, scaler, teams_data).ret

(***************************************************************************)
(* Application configuration (module level of app.py).                     *)
(***************************************************************************)
RegionNames == <<"VCT CN", "VCT EMEA", "VCT PACIFIC", "VCT AMERICA">>

regions(r) ==
    CASE r = "VCT CN" ->
           <<"AG", "BLG", "EDG", "FPX", "JDG", "NOVA", "TE", "TEC", "TYL", "WOL", "DRG", "XLG">>
      [] r = "VCT EMEA" ->
           <<"BBL", "FNC", "FUT", "GX", "KC", "KOI", "NAVI", "TH", "TL", "VIT", "M8", "APK">>
      [] r = "VCT PACIFIC" ->
           <<"DFM", "DRX", "GEN", "GE", "PRX", "RRQ", "T1", "TLN", "TS", "ZETA", "NS", "BME">>
      [] r = "VCT AMERICA" ->
           <<"100T", "C9", "EG", "FUR", "KRU", "LEV", "LOUD", "MIBR", "NRG", "SEN", "G2", "2G">>

maps == <<"Ascent", "Bind", "Breeze", "Fracture", "Haven", "Icebox", "Lotus", "Pearl", "Split", "Sunset">>

Range(s) == {s[i] : i \in DOMAIN s}

\* list.index(v)
IndexOf(s, v) == (CHOOSE i \in DOMAIN s : s[i] = v) - 1

(***************************************************************************)
(* The files on disk.  A file is [ok |-> FALSE] when it is absent or       *)
(* cannot be decoded, and [ok |-> TRUE, content |-> c] otherwise.          *)
(***************************************************************************)
Missing == [ok |-> FALSE]

File(c) == [ok |-> TRUE, content |-> c]

(***************************************************************************)
(* The cached loaders.  Each returns [stop |-> TRUE, error |-> message]    *)
(* when it called st.error and st.stop, and [stop |-> FALSE, value |-> v]  *)
(* otherwise.                                                              *)
(***************************************************************************)
load_model_and_scaler(files) ==
    IF ~files.model_pkl.ok \/ ~files.scaler_pkl.ok
    THEN [stop |-> TRUE, error |-> "load model failed"]
    ELSE [stop |-> FALSE,
          value |-> [model |-> files.model_pkl.content,
                     scaler |-> files.scaler_pkl.content]]

load_teams_data(files) ==
    IF ~files.merged_teams_data_json.ok
    THEN [stop |-> TRUE, error |-> "load teams data failed"]
    ELSE [stop |-> FALSE, value |-> files.merged_teams_data_json.content]

\* teams.json maps an abbreviation to its list of names; the loader inverts
\* it, a later abbreviation overwriting an earlier one for the same name.
RECURSIVE SetAll(_, _, _)
SetAll(d, names, abbr) ==
    IF names = <<>> THEN d
    ELSE SetAll(DictSet(d, names[1], abbr), Tail(names), abbr)

RECURSIVE InvertNames(_, _)
InvertNames(team_name_to_abbr, teams_json) ==
    IF teams_json = <<>> THEN team_name_to_abbr
    ELSE InvertNames(SetAll(team_name_to_abbr, teams_json[1][2], teams_json[1][1]),
                     Tail(teams_json))

\* The loader with the exception swallowed: an empty mapping, no st.stop().
load_team_mapping_NoStop(files) ==
    IF ~files.teams_json.ok
    THEN [stop |-> FALSE, value |-> EmptyDict]
    ELSE [stop |-> FALSE, value |-> InvertNames(EmptyDict, files.teams_json.content)]

load_team_mapping(files) ==
    IF ~files.teams_json.ok
    THEN [stop |-> TRUE, error |-> "load team mapping failed"]
    ELSE [stop |-> FALSE, value |-> InvertNames(EmptyDict, files.teams_json.content)]

(***************************************************************************)
(* Streamlit.  st.session_state is a function from the keys set so far.    *)
(* Every user interaction re-runs the script from the top with the widget  *)
(* the user touched carrying the new value: w is [key |-> k, value |-> v]  *)
(* for a selectbox, [key |-> k] for a button, NoInput for a plain re-run.  *)
(* An untouched selectbox returns options[index]; a button returns True    *)
(* only in the run its click caused.                                       *)
(***************************************************************************)
EmptySession == [k \in {} |-> None]

SsSet(ss, k, v) == [x \in DOMAIN ss \cup {k} |-> IF x = k THEN v ELSE ss[x]]

\* if k not in st.session_state: st.session_state[k] = v
SetDefault(ss, k, v) == IF k \in DOMAIN ss THEN ss ELSE SsSet(ss, k, v)

\* st.session_state.get(k)
SsGet(ss, k) == IF k \in DOMAIN ss THEN ss[k] ELSE None

NoInput == [key |-> "none"]

selectbox(key, options, index, w) ==
    IF w.key = key THEN w.value ELSE options[index + 1]

\* A button that answers True in every run a widget interaction caused.
button_AnyInteraction(key, w) == w.key # "none"

button(key, w) == w.key = key

\* Python truth of a string or None
Truthy(v) == v # None /\ v # ""

NoCall == [phase |-> "none"]

NoResult == [none |-> TRUE]

\* The list comprehension without its condition.
AvailableBTeams_Unfiltered(a_region, a_team, b_region) == regions(b_region)

\* The list comprehension with the region test negated.
AvailableBTeams_RegionTestNegated(a_region, a_team, b_region) ==
    SelectSeq(regions(b_region),
              LAMBDA team : b_region = a_region \/ team # a_team)

\* available_b_teams: the list comprehension of show_home_page
AvailableBTeams(a_region, a_team, b_region) ==
    SelectSeq(regions(b_region),
              LAMBDA team : b_region # a_region \/ team # a_team)

\* The session-state defaults set at the top of show_home_page.
HomeDefaults(ss0) ==
    The({The({The({The({SetDefault(s4, "selected_map", maps[1])
                        : s4 \in {SetDefault(s3, "b_team", regions(s3.b_region)[2])}})
                   : s3 \in {SetDefault(s2, "b_region", RegionNames[1])}})
              : s2 \in {SetDefault(s1, "a_team", regions(s1.a_region)[1])}})
         : s1 \in {SetDefault(ss0, "a_region", RegionNames[1])}})

\* Team A: the region selectbox, the repair of a team that is not of the
\* region, the team selectbox.
HomeTeamA(s5, w) ==
    The({The({The({SsSet(s7, "a_team",
                         selectbox("a_team_select", available_a_teams,
                                   IndexOf(available_a_teams, s7.a_team), w))
                   : s7 \in {IF s6.a_team \notin Range(available_a_teams)
                     THEN SsSet(s6, "a_team", available_a_teams[1]) ELSE s6}})
              : available_a_teams \in {regions(s6.a_region)}})
         : s6 \in {SsSet(s5, "a_region",
           selectbox("a_region_select", RegionNames,
           IndexOf(RegionNames, s5.a_region), w))}})

\* Team B: the region selectbox, the filtered list, the repair of a team
\* that is not in the list, the team selectbox when the list is not empty.
HomeTeamB(s8, w) ==
    The({The({The({(IF available_b_teams # <<>>
                    THEN SsSet(s10, "b_team",
                               selectbox("b_team_select", available_b_teams,
                                         IF s10.b_team \in Range(available_b_teams)
                                         THEN IndexOf(available_b_teams, s10.b_team)
                                         ELSE 0, w))
                    ELSE s10)
                   : s10 \in {IF s9.b_team \notin Range(available_b_teams)
                     THEN SsSet(s9, "b_team",
                     IF available_b_teams # <<>> THEN available_b_teams[1]
                     ELSE None)
                     ELSE s9}})
              : available_b_teams \in
                {AvailableBTeams(s9.a_region, s9.a_team, s9.b_region)}})
         : s9 \in {SsSet(s8, "b_region",
           selectbox("b_region_select", RegionNames,
           IndexOf(RegionNames, s8.b_region), w))}})

\* The map selectbox and the predict button; the result is the session
\* state the run leaves, whether it asked for a rerun, and what it showed.
HomeSubmit(s11, w) ==
    The({The({[ss |-> IF pressed /\ chosen THEN SsSet(s12, "page", "prediction") ELSE s12,
               rerun |-> pressed /\ chosen,
               screen |-> [page |-> "home",
                           available_a_teams |-> regions(s12.a_region),
                           available_b_teams |-> available_b_teams,
                           message |->
                               IF available_b_teams = <<>> THEN "no team to select"
                               ELSE IF pressed /\ ~chosen
                               THEN "select two teams and a map"
                               ELSE "none"]]
              : pressed \in {button("predict_btn", w)},
                chosen \in {Truthy(s12.a_team) /\ Truthy(s12.b_team)
                /\ Truthy(s12.selected_map)},
                available_b_teams \in
                {AvailableBTeams(s12.a_region, s12.a_team, s12.b_region)}})
         : s12 \in {SsSet(s11, "selected_map",
           selectbox("map_select", maps,
           IndexOf(maps, s11.selected_map), w))}})

\* One run of show_home_page on session state ss0 with widget input w.
show_home_page(ss0, w) ==
    The({The({The({HomeSubmit(s11, w) : s11 \in {HomeTeamB(s8, w)}})
              : s8 \in {HomeTeamA(s5, w)}})
         : s5 \in {HomeDefaults(ss0)}})

\* One run of show_prediction_page.  calls counts the executions of
\* predict_match since the predict button was last pressed.
show_prediction_page(ss, w, model, scaler, teams_data, calls) ==
    LET a_team == SsGet(ss, "a_team")
        b_team == SsGet(ss, "b_team")
        selected_map == SsGet(ss, "selected_map")
        back == button("back_btn", w)
    IN  IF ~(Truthy(a_team) /\ Truthy(b_team) /\ Truthy(selected_map))
        THEN [ss |-> IF back THEN SsSet(ss, "page", "home") ELSE ss,
              rerun |-> back,
              screen |-> [page |-> "prediction", view |-> "warning"],
              called |-> FALSE, calls |-> calls, teams_data |-> teams_data]
        ELSE The({[ss |-> IF back THEN SsSet(ss, "page", "home") ELSE ss,
                   rerun |-> back,
                   screen |-> [page |-> "prediction",
                               view |-> IF "error" \in DOMAIN frame.ret
                                        THEN "error" ELSE "card"],
                   called |-> TRUE, calls |-> calls + 1,
                   call |-> [phase |-> "done", team1_abbr |-> a_team,
                             team2_abbr |-> b_team, map_name |-> selected_map],
                   result |-> frame.ret,
                   teams_data |-> frame.teams_data]
                  : frame \in {predict_match_frame(a_team, b_team, selected_map,
                                                   model, scaler, teams_data)}})

\* A run ended by st.stop() in a loader.  r is the state a run starts from
\* and hands on: session state, resource cache, the rendered screen, the
\* predict_match call the run made (if it made one) with its result, and
\* the call count.
Halted(r, ss, cache, message) ==
    [r EXCEPT !.ss = ss, !.cache = cache, !.rerun = FALSE,
              !.screen = [page |-> "halted", message |-> message],
              !.call = NoCall, !.result = NoResult]

\* @st.cache_resource: the cached value if there is one, else the loader's;
\* the value is cached only when the loader returned.
Cached(cache, name, loaded) ==
    IF name \in DOMAIN cache
    THEN [stop |-> FALSE, value |-> cache[name], cache |-> cache]
    ELSE The({(IF l.stop THEN l @@ [cache |-> cache]
               ELSE l @@ [cache |-> SsSet(cache, name, l.value)])
              : l \in {loaded}})

\* The page dispatch at the end of main().
Dispatch(r, ss, w, cache) ==
    IF ss.page = "home"
    THEN The({[r EXCEPT !.ss = h.ss, !.cache = cache, !.rerun = h.rerun,
                        !.screen = h.screen,
                        !.calls = IF h.rerun THEN 0 ELSE r.calls,
                        !.call = NoCall, !.result = NoResult]
              : h \in {show_home_page(ss, w)}})
    ELSE IF ss.page = "prediction"
    THEN The({[r EXCEPT !.ss = p.ss,
                        !.cache = SsSet(cache, "teams_data", p.teams_data),
                        !.rerun = p.rerun, !.screen = p.screen,
                        !.calls = p.calls,
                        !.call = IF p.called THEN p.call ELSE NoCall,
                        !.result = IF p.called THEN p.result ELSE NoResult]
              : p \in {show_prediction_page(ss, w, cache.model_and_scaler.model,
                cache.model_and_scaler.scaler,
                cache.teams_data, r.calls)}})
    ELSE [r EXCEPT !.ss = ss, !.cache = cache, !.rerun = FALSE,
                   !.screen = [page |-> "blank"],
                   !.call = NoCall, !.result = NoResult]

\* The three loads at the top of main(), in order, up to the first that
\* stops the run; cache is the resource cache they leave.
Loads(files, cache) ==
    The({IF ms.stop THEN ms
         ELSE The({IF td.stop THEN td
                   ELSE Cached(td.cache, "team_mapping", load_team_mapping(files))
                   : td \in {Cached(ms.cache, "teams_data", load_teams_data(files))}})
         : ms \in {Cached(cache, "model_and_scaler", load_model_and_scaler(files))}})

\* One run of main() from run state r with widget input w.
main(files, r, w) ==
    The({IF loads.stop
         THEN Halted(r, SetDefault(r.ss, "page", "home"), loads.cache, loads.error)
         ELSE Dispatch(r, SetDefault(r.ss, "page", "home"), w, loads.cache)
         : loads \in {Loads(files, r.cache)}})

\* One execution of the script: the module level reads the team images (an
\* uncaught FileNotFoundError ends the run), then main().
script(files, r, w) ==
    IF ~files.images
    THEN [r EXCEPT !.rerun = FALSE, !.screen = [page |-> "crashed"],
                   !.call = NoCall, !.result = NoResult]
    ELSE main(files, r, w)

(***************************************************************************)
(* Data: team tables (merged_teams_data.json), teams.json, and the         *)
(* probabilities a classifier may answer with.                             *)
(***************************************************************************)
\* The scenario of two rated teams; the mean rating is 1.1.
TeamsRated ==
    << <<"AG",  [avg_rating |-> D1_2, map_win_rate |-> << <<"Ascent", D0_6>> >>]>>,
       <<"BLG", [avg_rating |-> One,  map_win_rate |-> << <<"Ascent", D0_4>> >>]>> >>

\* Two rated teams and two without avg_rating (counted as 0 in the mean,
\* which is 0.45), one of these with no map at all.
TeamsSparse ==
    << <<"AG",  [avg_rating |-> D0_8, map_win_rate |-> << <<"Ascent", D0_6>> >>]>>,
       <<"BLG", [avg_rating |-> One,  map_win_rate |-> << <<"Ascent", D0_6>> >>]>>,
       <<"EDG", [map_win_rate |-> EmptyDict]>>,
       <<"FPX", [map_win_rate |-> << <<"Bind", DEFAULT_WIN_RATE>> >>]>> >>

\* A team entry without the map_win_rate key.
TeamsNoMaps ==
    << <<"AG",  [avg_rating |-> D1_2, map_win_rate |-> << <<"Ascent", D0_6>> >>]>>,
       <<"JDG", [avg_rating |-> One]>> >>

TeamsJson ==
    << <<"AG",  <<"All Gamers", "AG">> >>,
       <<"BLG", <<"Bilibili Gaming", "BLG", "AG">> >> >>

ProbSet ==
    {Zero, D0_1996, D0_2_pred, D0_2, D0_2004, DEFAULT_WIN_RATE,
     D0_7996, D0_8_pred, D0_8, D0_8004, One}

Disk(model, scaler, teams) ==
    [images |-> TRUE,
     model_pkl |-> model, scaler_pkl |-> scaler,
     merged_teams_data_json |-> teams,
     teams_json |-> File(TeamsJson)]

\* Direct calls: every classifier answer, a fitting and an unfitting scaler,
\* every table.
PredictFiles ==
    {Disk(File([proba |-> p]), File([n_features_in |-> n]), File(t)) :
        p \in ProbSet, n \in {3, 4},
        t \in {TeamsRated, TeamsSparse, TeamsNoMaps, EmptyDict}}

CallTeams == {"AG", "BLG", "EDG", "FPX", "JDG", "XX"}

CallMaps == {"Ascent", "Bind"}

\* The application: working installations, and each artifact missing in turn.
GoodDisk == Disk(File([proba |-> D0_2]), File([n_features_in |-> 4]), File(TeamsSparse))

AppFiles ==
    {GoodDisk,
     Disk(File([proba |-> D0_8004]), File([n_features_in |-> 3]), File(TeamsRated))}
    \cup {[GoodDisk EXCEPT !.images = FALSE],
          [GoodDisk EXCEPT !.model_pkl = Missing],
          [GoodDisk EXCEPT !.scaler_pkl = Missing],
          [GoodDisk EXCEPT !.merged_teams_data_json = Missing],
          [GoodDisk EXCEPT !.teams_json = Missing]}

\* The user picks among the first entries of a list of options.
MaxRegionPick == 2

MaxTeamPick == 3

MaxMapPick == 2

\* Plain re-runs of the result page are followed up to this call count.
MaxCalls == 2

(***************************************************************************)
(* State.                                                                  *)
(***************************************************************************)
VARIABLES
    files,          \* the artifacts on disk
    session_state,  \* st.session_state
    cache,          \* st.cache_resource: loader name -> loaded value
    screen,         \* what the last run rendered
    last_event,     \* the widget whose interaction caused the last run
    calls,          \* predict_match executions since page became "prediction"
    call,           \* the arguments of the predict_match call of the last run
    result,         \* its return value
    locals          \* its local variables (direct calls only)

vars == <<files, session_state, cache, screen, last_event, calls, call, result, locals>>

RunState ==
    [ss |-> session_state, cache |-> cache, screen |-> screen, rerun |-> FALSE,
     calls |-> calls, call |-> call, result |-> result]

\* A fresh browser session: nothing has run yet.
Init ==
    /\ files \in AppFiles
    /\ session_state = EmptySession
    /\ cache = EmptySession
    /\ screen = [page |-> "none"]
    /\ last_event = "none"
    /\ calls = 0
    /\ call = NoCall
    /\ result = NoResult
    /\ locals = NoResult

\* The user's interaction ev with widget input w and the script run it
\* causes; st.rerun() starts the script again at once, without widget input.
Interact(ev, w) ==
    \E first \in {script(files, RunState, w)} :
    \E out \in {IF first.rerun THEN script(files, first, NoInput) ELSE first} :
        /\ session_state' = out.ss
        /\ cache' = out.cache
        /\ screen' = out.screen
        /\ calls' = out.calls
        /\ call' = out.call
        /\ result' = out.result
        /\ last_event' = ev
        /\ UNCHANGED <<files, locals>>

\* The first visit, or a re-run without any widget interaction.
Rerun ==
    /\ screen.page # "prediction" \/ calls < MaxCalls
    /\ Interact("run", NoInput)

SelectARegion ==
    /\ screen.page = "home"
    /\ \E i \in 1..Min(MaxRegionPick, Len(RegionNames)) :
          Interact("a_region_select",
                   [key |-> "a_region_select", value |-> RegionNames[i]])

SelectATeam ==
    /\ screen.page = "home"
    /\ \E i \in 1..Min(MaxTeamPick, Len(screen.available_a_teams)) :
          Interact("a_team_select",
                   [key |-> "a_team_select", value |-> screen.available_a_teams[i]])

SelectBRegion ==
    /\ screen.page = "home"
    /\ \E i \in 1..Min(MaxRegionPick, Len(RegionNames)) :
          Interact("b_region_select",
                   [key |-> "b_region_select", value |-> RegionNames[i]])

SelectBTeam ==
    /\ screen.page = "home"
    /\ \E i \in 1..Min(MaxTeamPick, Len(screen.available_b_teams)) :
          Interact("b_team_select",
                   [key |-> "b_team_select", value |-> screen.available_b_teams[i]])

SelectMap ==
    /\ screen.page = "home"
    /\ \E i \in 1..Min(MaxMapPick, Len(maps)) :
          Interact("map_select", [key |-> "map_select", value |-> maps[i]])

PressPredict ==
    /\ screen.page = "home"
    /\ Interact("predict_btn", [key |-> "predict_btn"])

PressBack ==
    /\ screen.page = "prediction"
    /\ Interact("back_btn", [key |-> "back_btn"])

Next ==
    \/ Rerun
    \/ SelectARegion
    \/ SelectATeam
    \/ SelectBRegion
    \/ SelectBTeam
    \/ SelectMap
    \/ PressPredict
    \/ PressBack

Spec == Init /\ [][Next]_vars

(***************************************************************************)
(* predict_match called directly, as a test would, on loaded artifacts.    *)
(***************************************************************************)
Loaded(f) ==
    [model_and_scaler |-> load_model_and_scaler(f).value,
     teams_data |-> load_teams_data(f).value,
     team_mapping |-> load_team_mapping(f).value]

ReadyCalls ==
    {[phase |-> "ready", team1_abbr |-> a, team2_abbr |-> b, map_name |-> m] :
        a \in CallTeams, b \in CallTeams, m \in CallMaps}

InitPredict ==
    /\ files \in PredictFiles
    /\ session_state = EmptySession
    /\ cache = Loaded(files)
    /\ screen = [page |-> "none"]
    /\ last_event = "none"
    /\ calls = 0
    /\ call \in ReadyCalls
    /\ result = NoResult
    /\ locals = NoResult

CallPredict ==
    /\ call.phase = "ready"
    /\ \E frame \in {predict_match_frame(call.team1_abbr, call.team2_abbr,
                                          call.map_name,
                                          cache.model_and_scaler.model,
                                          cache.model_and_scaler.scaler,
                                          cache.teams_data)} :
           /\ result' = frame.ret
           /\ locals' = IF "locals" \in DOMAIN frame THEN frame.locals ELSE NoResult
           /\ cache' = [cache EXCEPT !.teams_data = frame.teams_data]
    /\ call' = [call EXCEPT !.phase = "done"]
    /\ UNCHANGED <<files, session_state, screen, last_event, calls>>

NextCall ==
    /\ call.phase = "done"
    /\ call' \in ReadyCalls
    /\ result' = NoResult
    /\ locals' = NoResult
    /\ UNCHANGED <<files, session_state, cache, screen, last_event, calls>>

NextPredict == CallPredict \/ NextCall

SpecPredict == InitPredict /\ [][NextPredict]_vars

(***************************************************************************)
(* Properties.  Table is the team table on disk, which the loader hands to *)
(* every call; Succeeded and Failed describe the call just made.           *)
(***************************************************************************)
Table == files.merged_teams_data_json.content

Called == call.phase = "done"

Succeeded == Called /\ "win_prob" \in DOMAIN result

Failed == Called /\ "error" \in DOMAIN result

\* C1: a call with a team1 or team2 abbreviation that is not a key of the
\* team table returns a result that holds a non-empty error string and no
\* win_prob, whatever the map and the table.
C1_UnknownTeamIsError ==
    (Called /\ (call.team1_abbr \notin Keys(Table) \/ call.team2_abbr \notin Keys(Table)))
        => /\ "error" \in DOMAIN result
           /\ \E i \in DOMAIN result.error : result.error[i] # ""
           /\ "win_prob" \notin DOMAIN result

\* C1 happens: team2 is unknown in a table that knows team1.
C1_Witness ==
    /\ Failed
    /\ call.team1_abbr \in Keys(Table)
    /\ call.team2_abbr \notin Keys(Table)
    /\ result = [error |-> <<"predict failed: ", call.team2_abbr>>]

\* C2 as stated: a successful prediction is labelled "high confidence" iff
\* the probability is <= 0.2 or >= 0.8, and "use with caution" otherwise.
C2_HighIffOutsideOpenInterval ==
    Succeeded =>
        /\ result.confidence \in {HIGH_CONFIDENCE, USE_WITH_CAUTION}
        /\ result.confidence = HIGH_CONFIDENCE
              <=> (FLeq(locals.prob, D0_2) \/ FLeq(D0_8, locals.prob))

\* C2, amended: a successful prediction is labelled "high confidence" iff
\* abs(prob - 0.5) > 0.3 in double arithmetic, prob being the classifier's
\* probability before rounding; that is iff prob < 0.2 or prob >= 0.8 (0.2
\* itself is "use with caution", 0.8 itself is "high confidence").
C2_HighIffBelowOrFrom ==
    Succeeded =>
        /\ result.confidence \in {HIGH_CONFIDENCE, USE_WITH_CAUTION}
        /\ result.confidence = HIGH_CONFIDENCE
              <=> (FLess(locals.prob, D0_2) \/ FLeq(D0_8, locals.prob))

\* C2 happens at the lower boundary: a probability of 0.2, reported as 0.2,
\* is labelled "use with caution".
C2_Witness ==
    /\ Succeeded
    /\ locals.prob = D0_2
    /\ result.win_prob = D0_2
    /\ result.confidence = USE_WITH_CAUTION

\* C3: on the selection screen the list offered for team B is team B's
\* region list without team A when the two regions are equal, and the full
\* region list when they differ, after any sequence of selections.
C3_TeamBListExcludesTeamA ==
    screen.page = "home" =>
        IF session_state.b_region = session_state.a_region
        THEN /\ session_state.a_team \notin Range(screen.available_b_teams)
             /\ Range(screen.available_b_teams)
                   = Range(regions(session_state.b_region)) \ {session_state.a_team}
             /\ Len(screen.available_b_teams)
                   = Len(regions(session_state.b_region)) - 1
        ELSE screen.available_b_teams = regions(session_state.b_region)

\* C3 happens: team A was changed to the team B had, in the same region.
C3_Witness ==
    /\ screen.page = "home"
    /\ last_event = "a_team_select"
    /\ session_state.b_region = session_state.a_region
    /\ session_state.a_team = "BLG"
    /\ screen.available_b_teams[1] = "AG"

\* C4 as stated: predict_match is executed once per press of the predict
\* button, the run of the back press included, not once per render of the
\* result screen.
C4_OncePerPredictAction ==
    /\ calls <= 1
    /\ screen.page = "prediction" => calls = 1

\* C5: the session page is only ever home or prediction, home first; it
\* goes from home to prediction only in the run of a predict button press
\* and from prediction to home only in the run of a back button press.
C5_PageTransitions ==
    [][/\ "page" \in DOMAIN session_state'
          => session_state'.page \in {"home", "prediction"}
       /\ ("page" \notin DOMAIN session_state /\ "page" \in DOMAIN session_state')
          => session_state'.page = "home"
       /\ ("page" \in DOMAIN session_state
           /\ session_state'.page # session_state.page)
          => \/ /\ session_state.page = "home"
                /\ session_state'.page = "prediction"
                /\ last_event' = "predict_btn"
             \/ /\ session_state.page = "prediction"
                /\ session_state'.page = "home"
                /\ last_event' = "back_btn"]_vars

\* C5 happens: the page is home again after a back button press.
C5_Witness ==
    /\ "page" \in DOMAIN session_state
    /\ session_state.page = "home"
    /\ screen.page = "home"
    /\ last_event = "back_btn"

\* C6 as stated: whenever both teams are in the table, rating_level_diff
\* equals rating_diff.
C6_LevelDiffEqualsRatingDiff ==
    (Called /\ "features" \in DOMAIN locals)
        => locals.features[3] = locals.features[1]

\* C6, amended: rating_level_diff equals rating_diff whenever a team lacks
\* avg_rating, or both ratings lie within a factor of two of the mean
\* rating (so that both subtractions of the mean are exact); otherwise the
\* two are equal only up to floating-point rounding.
C6_LevelDiffEqualsWhenExact ==
    (Called /\ "features" \in DOMAIN locals)
        => LET team1 == Get(Table, call.team1_abbr)
               team2 == Get(Table, call.team2_abbr)
               mean == locals.global_avg_rating
               Near(team) ==
                   /\ FLeq(mean, FMulInt(team.avg_rating, 2))
                   /\ FLeq(team.avg_rating, FMulInt(mean, 2))
           IN  (\/ "avg_rating" \notin DOMAIN team1
                \/ "avg_rating" \notin DOMAIN team2
                \/ Near(team1) /\ Near(team2))
                   => locals.features[3] = locals.features[1]

\* C6 happens: two rated teams near the mean, with a rating_diff that is
\* not zero.
C6_Witness ==
    /\ Called
    /\ "features" \in DOMAIN locals
    /\ Table = TeamsRated
    /\ call.team1_abbr = "AG"
    /\ call.team2_abbr = "BLG"
    /\ locals.features[1] # Zero
    /\ locals.features[3] = locals.features[1]

\* C7: map_diff is team1's win rate on the map minus team2's, each 0.5
\* when the team has no rate for the map; it lies in [-1, 1] and is 0 when
\* the two rates are the same.
C7_MapDiff ==
    (Called /\ "features" \in DOMAIN locals)
        => LET Rate(abbr) ==
                   LET rates == Get(Table, abbr).map_win_rate
                   IN  IF call.map_name \in Keys(rates)
                       THEN Get(rates, call.map_name) ELSE Dbl(<<1>>, 1)
               map_diff == locals.features[2]
           IN  /\ map_diff = FSub(Rate(call.team1_abbr), Rate(call.team2_abbr))
               /\ FLeq(FNeg(One), map_diff)
               /\ FLeq(map_diff, One)
               /\ Rate(call.team1_abbr) = Rate(call.team2_abbr) => map_diff = Zero

\* C7 happens: one team has a rate for the map and the other defaults.
C7_Witness ==
    /\ Called
    /\ "features" \in DOMAIN locals
    /\ Table = TeamsSparse
    /\ call.team1_abbr = "AG"
    /\ call.team2_abbr = "FPX"
    /\ call.map_name = "Ascent"
    /\ locals.features[2] = FSub(D0_6, DEFAULT_WIN_RATE)

\* C8: the team table, the name mapping, the model and the scaler held by
\* the application are the values loaded from disk, after any call and any
\* sequence of interactions.
C8_LoadedDataUnchanged ==
    /\ "model_and_scaler" \in DOMAIN cache
          => cache.model_and_scaler = [model |-> files.model_pkl.content,
                                       scaler |-> files.scaler_pkl.content]
    /\ "teams_data" \in DOMAIN cache => cache.teams_data = Table
    /\ "team_mapping" \in DOMAIN cache
          => cache.team_mapping =
                << <<"All Gamers", "AG">>, <<"AG", "BLG">>,
                   <<"Bilibili Gaming", "BLG">>, <<"BLG", "BLG">> >>

\* C8 happens: a successful call for a team without avg_rating, for which
\* the call reads the mean rating instead.
C8_Witness ==
    /\ screen.page = "prediction"
    /\ Succeeded
    /\ "avg_rating" \notin DOMAIN Get(Table, call.team2_abbr)
    /\ cache.teams_data = Table

\* C9: whenever the result screen is shown, and so whenever the screens
\* call predict_match, team A and team B are set, each belongs to the list
\* of its region, and the two differ.
C9_TeamsValidAtPredict ==
    screen.page = "prediction" =>
        /\ Truthy(session_state.a_team)
        /\ Truthy(session_state.b_team)
        /\ session_state.a_team \in Range(regions(session_state.a_region))
        /\ session_state.b_team \in Range(regions(session_state.b_region))
        /\ session_state.a_team # session_state.b_team
        /\ Called
        /\ call.team1_abbr = session_state.a_team
        /\ call.team2_abbr = session_state.b_team

\* C9 happens: predict pressed after team A took the team B had by default.
C9_Witness ==
    /\ screen.page = "prediction"
    /\ last_event = "predict_btn"
    /\ session_state.a_region = session_state.b_region
    /\ session_state.a_team = "BLG"
    /\ session_state.b_team = "AG"

\* C10: when the model file, the scaler file or either JSON table cannot
\* be loaded, a run shows an error and stops: neither screen is rendered
\* and predict_match is not called.
C10_LoadFailureHalts ==
    (\/ ~files.model_pkl.ok
     \/ ~files.scaler_pkl.ok
     \/ ~files.merged_teams_data_json.ok
     \/ ~files.teams_json.ok)
        => /\ screen.page \in {"none", "halted"}
           /\ screen.page = "halted" => screen.message # ""
           /\ last_event # "none" => screen.page = "halted"
           /\ calls = 0
           /\ call = NoCall
           /\ result = NoResult

\* C10 happens: teams.json, the last artifact loaded, is missing; the two
\* loaders before it have returned.
C10_Witness ==
    /\ ~files.teams_json.ok
    /\ screen.page = "halted"
    /\ screen.message = "load team mapping failed"
    /\ "teams_data" \in DOMAIN cache

=============================================================================
